---- MODULE Spec2Model ----
(***************************************************************************)
(* Lifecycle model of the test-explorer Adapter (src/src/adapter.ts).      *)
(*                                                                         *)
(* The Adapter owns one KarmaTestExplorer at a time, a list of the         *)
(* disposables of that explorer (testExplorerDisposables) and a list of    *)
(* adapter-lifetime disposables (disposables).  Every public method is     *)
(* async: it runs synchronously up to its first await, and each            *)
(* continuation after an await is a separate step that may interleave      *)
(* with the steps of other calls.                                          *)
(***************************************************************************)
EXTENDS Integers, Sequences, FiniteSets, TLC

\* Total number of host calls (load/run/debug/cancel/dispose) explored.
MaxCalls == 2
\* Total number of createTestExplorer passes explored (the constructor's included).
MaxGen == 3

None == 0 - 1

\* The disposables createTestExplorer pushes, in push order.
Kinds ==
  <<"factory", "processHandler", "testLocator", "testStore", "testManager", "fileWatcher">>

\* The adapter-lifetime disposables, in the order the constructor pushes them.
ProcessKinds ==
  <<"outputChannelLog", "testServerLog", "portAcquisitionClient", "debugger",
    "projectCommands", "notificationHandler",
    "testLoadEmitter", "testRunEmitter", "retireEmitter">>

\* Test id arguments of run/debug.
IdLists == {<<"testA", "testB">>}

Gens == 0 .. (MaxGen - 1)
Calls == 1 .. MaxCalls

Range(s) == {s[i] : i \in DOMAIN s}
Reverse(s) == [i \in 1 .. Len(s) |-> s[Len(s) + 1 - i]]
Occurrences(s, x) == Cardinality({i \in DOMAIN s : s[i] = x})

\* Disposable objects: gen is the createTestExplorer pass that made the object
\* (None for the adapter-lifetime ones); kind "session" is the KarmaTestExplorer.
Res(g, k) == [gen |-> g, kind |-> k]
Session(g) == Res(g, "session")
SessionRes == {Res(g, k) : g \in Gens, k \in Range(Kinds)}
SessionObjs == {Session(g) : g \in Gens}
ProcessRes == {Res(None, k) : k \in Range(ProcessKinds)}
AllDisposables == SessionRes \cup SessionObjs \cup ProcessRes

\* createTestExplorer can throw before any of its six pushes or in the
\* KarmaTestExplorer constructor: FailPoints counts the pushes done before the throw.
FailPoints == 0 .. Len(Kinds)
NoFail == Len(Kinds) + 1


VARIABLES
  constructed,              \* the constructor returned (FALSE: it threw)
  testLoadEmitter,          \* identity of the load channel
  testRunEmitter,           \* identity of the run/result channel
  retireEmitter,            \* identity of the retire channel
  disposables,              \* this.disposables
  karmaTestExplorer,        \* this.karmaTestExplorer: the gen of the current explorer
  testExplorerDisposables,  \* this.testExplorerDisposables
  nextGen,                  \* number of createTestExplorer passes made
  sessions,                 \* gens whose KarmaTestExplorer was constructed
  wired,                    \* gen -> the three emitters its explorer was given
  created,                  \* disposables obtained from a MainFactory so far
  released,                 \* disposable -> number of dispose() invocations on it
  lastDisposal,             \* the order in which the last Disposer.dispose released
  calls,                    \* call id -> the state of that host call
  emitted,                  \* events fired so far: <<emitter, kind>>
  subscribed                \* the emitters a subscriber got from the accessors at construction

adapterFields ==
  <<constructed, testLoadEmitter, testRunEmitter, retireEmitter, subscribed>>
explorerFields == <<karmaTestExplorer, nextGen, sessions, wired, created>>
vars ==
  <<adapterFields, explorerFields, disposables, testExplorerDisposables, released,
    lastDisposal, calls, emitted>>

NoCall ==
  [op |-> "none", pc |-> "idle", ids |-> <<>>, issuedAt |-> None, target |-> None,
   ndeleg |-> 0, settledOn |-> None, old |-> None, regAtStart |-> {}, new |-> None,
   ptrAtEnd |-> None, err |-> "none", late |-> FALSE, n |-> 0,
   inFlight |-> {}, kickPc |-> "none", kickTarget |-> None, kickOnDisposed |-> FALSE]

(***************************************************************************)
(* Helpers                                                                 *)
(***************************************************************************)

\* An EventEmitter object: made tells which construction made it (0: the constructor).
Emitter(chan, made) == [chan |-> chan, made |-> made]

\* The emitters handed to a new KarmaTestExplorer.
ExplorerWiring == <<testLoadEmitter, testRunEmitter, retireEmitter>>

\* The event accessors tests / testStates / retire.
tests == testLoadEmitter
testStates == testRunEmitter
retire == retireEmitter

DisposeStarted == \E c \in Calls : calls[c].op = "dispose"
DisposeResolved == \E c \in Calls : calls[c].op = "dispose" /\ calls[c].pc = "resolved"

\* Call slots are taken in order; nothing can be called on an adapter whose
\* constructor threw.
Fresh(c) ==
  /\ constructed
  /\ calls[c].op = "none"
  /\ \A d \in Calls : d < c => calls[d].op # "none"

\* Resets that may still make a createTestExplorer pass.
ResetsInFlight ==
  {c \in Calls : calls[c].op = "cancel"
                 /\ calls[c].pc \in {"awaitSession", "awaitDisposer", "cleared"}}

\* An event fired by an explorer on one of its emitters.
Fire(emitter, kind) == <<emitter, kind>>

\* What KarmaTestExplorer fires when an operation starts and when it ends:
\* load events on its load emitter, run/debug events on its run emitter.
StartEvent(g, op) ==
  IF op = "load" THEN Fire(wired[g][1], "loadStarted") ELSE Fire(wired[g][2], "runStarted")
FinishEvent(g, op, ok) ==
  IF op = "load"
    THEN Fire(wired[g][1], IF ok THEN "loadFinished" ELSE "loadFinishedError")
    ELSE Fire(wired[g][2], IF ok THEN "runFinished" ELSE "runFinishedError")

\* Disposer.dispose(list), where `failing` tells that the dispose() of some of
\* the elements throws: every element is released, last registered first, and
\* the list is left empty; a failure is logged and swallowed, so that the outcome
\* is the same with and without one.
DisposerDispose(list, failing) ==
  [order |-> Reverse(list),
   counts |-> [r \in AllDisposables |-> released[r] + Occurrences(list, r)],
   list |-> <<>>]

\* Whether elements of a list may throw in one Disposer.dispose.
Throwers(list) ==
  IF Len(list) > 0 THEN BOOLEAN ELSE {FALSE}

\* createTestExplorer building new emitters for each explorer.
createTestExplorerOwnEmitters(g, registry, failAt) ==
  LET pushes == IF failAt = NoFail THEN Len(Kinds) ELSE failAt
      local == [i \in 1 .. pushes |-> Res(g, Kinds[i])]
      threw == failAt # NoFail
  IN  [threw |-> threw,
       made |-> Range(local),
       registry |-> IF threw THEN registry ELSE registry \o local,
       explorer |-> IF threw THEN None ELSE g,
       wiring |-> <<Emitter("load", g), Emitter("run", g), Emitter("retire", g)>>]

\* createTestExplorer registering the test locator before the process handler.
createTestExplorerLocatorFirst(g, registry, failAt) ==
  LET order == <<"factory", "testLocator", "processHandler", "testStore", "testManager",
                 "fileWatcher">>
      pushes == IF failAt = NoFail THEN Len(order) ELSE failAt
      local == [i \in 1 .. pushes |-> Res(g, order[i])]
      threw == failAt # NoFail
  IN  [threw |-> threw,
       made |-> Range(local),
       registry |-> IF threw THEN registry ELSE registry \o local,
       explorer |-> IF threw THEN None ELSE g,
       wiring |-> ExplorerWiring]

\* createTestExplorer registering the shared debugger with the explorer's disposables.
createTestExplorerOwningDebugger(g, registry, failAt) ==
  LET pushes == IF failAt = NoFail THEN Len(Kinds) ELSE failAt
      local == [i \in 1 .. pushes |-> Res(g, Kinds[i])]
      threw == failAt # NoFail
  IN  [threw |-> threw,
       made |-> Range(local),
       registry |-> IF threw THEN registry ELSE registry \o local \o <<Res(None, "debugger")>>,
       explorer |-> IF threw THEN None ELSE g,
       wiring |-> ExplorerWiring]

\* createTestExplorer as pass g on the registry given; failAt tells where it throws.
createTestExplorer(g, registry, failAt) ==
  LET pushes == IF failAt = NoFail THEN Len(Kinds) ELSE failAt
      local == [i \in 1 .. pushes |-> Res(g, Kinds[i])]
      threw == failAt # NoFail
  IN  [threw |-> threw,
       made |-> Range(local),
       registry |-> IF threw THEN registry ELSE registry \o local,
       explorer |-> IF threw THEN None ELSE g,
       wiring |-> ExplorerWiring]

(***************************************************************************)
(* The constructor                                                         *)
(***************************************************************************)

Init ==
  \E failAt \in FailPoints \cup {NoFail} :
    /\ testLoadEmitter = Emitter("load", 0)
    /\ testRunEmitter = Emitter("run", 0)
    /\ retireEmitter = Emitter("retire", 0)
    /\ disposables = [i \in DOMAIN ProcessKinds |-> Res(None, ProcessKinds[i])]
    /\ LET e == createTestExplorer(0, <<>>, failAt)
       IN  /\ constructed = ~e.threw
           /\ karmaTestExplorer = e.explorer
           /\ testExplorerDisposables = e.registry
           /\ sessions = IF e.threw THEN {} ELSE {0}
           /\ wired = [g \in Gens |-> IF g = 0 /\ ~e.threw THEN e.wiring ELSE <<>>]
           /\ created = e.made
    /\ nextGen = 1
    /\ released = [r \in AllDisposables |-> 0]
    /\ lastDisposal = <<>>
    /\ calls = [c \in Calls |-> NoCall]
    /\ emitted = {}
    /\ subscribed = <<tests, testStates, retire>>

(***************************************************************************)
(* load / run / debug                                                      *)
(***************************************************************************)

\* A delegation to an explorer cached at construction instead of the current one.
DelegateToFirstExplorer(c, op, ids) ==
  [calls[c] EXCEPT !.op = op, !.pc = "pending", !.ids = ids,
                   !.target = 0, !.ndeleg = @ + 1]

\* return this.karmaTestExplorer.<op>(...): the explorer is read and called at once.
Delegate(c, op, ids) ==
  [calls[c] EXCEPT !.op = op, !.pc = "pending", !.ids = ids,
                   !.target = karmaTestExplorer, !.ndeleg = @ + 1]

\* A call that looks the explorer up again when it ends.
SettleOnCurrent(c, ok) ==
  [calls[c] EXCEPT !.pc = IF ok THEN "resolved" ELSE "rejected",
                   !.err = IF ok THEN "none" ELSE "delegation",
                   !.settledOn = karmaTestExplorer]

\* The promise returned is the called explorer's: the call ends with it.
Settle(c, ok) ==
  [calls[c] EXCEPT !.pc = IF ok THEN "resolved" ELSE "rejected",
                   !.err = IF ok THEN "none" ELSE "delegation",
                   !.settledOn = calls[c].target]

HostCall(c, op, ids) ==
  /\ Fresh(c)
  /\ ~DisposeResolved
  /\ LET rec == Delegate(c, op, ids)
     IN  /\ calls' = [calls EXCEPT ![c] = [rec EXCEPT !.issuedAt = karmaTestExplorer]]
         /\ emitted' = emitted \cup {StartEvent(rec.target, op)}
  /\ UNCHANGED <<adapterFields, explorerFields, disposables, testExplorerDisposables,
                 released, lastDisposal>>

load(c) == HostCall(c, "load", <<>>)

run(c) == \E ids \in IdLists : HostCall(c, "run", ids)

debug(c) == \E ids \in IdLists : HostCall(c, "debug", ids)

\* A delegation whose failure makes the adapter dispose the explorer it failed on.
settleDisposingOnFailure(c) ==
  /\ calls[c].op \in {"load", "run", "debug"}
  /\ calls[c].pc = "pending"
  /\ \E ok \in BOOLEAN :
       /\ calls' = [calls EXCEPT ![c] = Settle(c, ok)]
       /\ emitted' = emitted \cup {FinishEvent(calls[c].target, calls[c].op, ok)}
       /\ released' = IF ok THEN released
                      ELSE [released EXCEPT ![Session(karmaTestExplorer)] = @ + 1]
  /\ UNCHANGED <<adapterFields, explorerFields, disposables, testExplorerDisposables,
                 lastDisposal>>

settle(c) ==
  /\ calls[c].op \in {"load", "run", "debug"}
  /\ calls[c].pc = "pending"
  /\ \E ok \in BOOLEAN :
       /\ calls' = [calls EXCEPT ![c] = Settle(c, ok)]
       /\ emitted' = emitted \cup {FinishEvent(calls[c].target, calls[c].op, ok)}
  /\ UNCHANGED <<adapterFields, explorerFields, disposables, testExplorerDisposables,
                 released, lastDisposal>>

(***************************************************************************)
(* disposeTestExplorer, reset / cancel, dispose                            *)
(***************************************************************************)

\* The explorer whose dispose() disposeTestExplorer invokes.
ExplorerToDispose == karmaTestExplorer

\* The synchronous part of disposeTestExplorer, run by the call itself:
\* this.karmaTestExplorer.dispose() is invoked and awaited.
BeginTeardown(c, op) ==
  /\ Fresh(c)
  /\ calls' = [calls EXCEPT ![c] =
       [@ EXCEPT !.op = op, !.pc = "awaitSession", !.issuedAt = karmaTestExplorer,
                 !.old = ExplorerToDispose,
                 !.regAtStart = Range(testExplorerDisposables),
                 !.inFlight = {d \in Calls : calls[d].pc = "pending"},
                 !.late = DisposeResolved, !.n = @ + 1]]
  /\ released' = [released EXCEPT ![Session(ExplorerToDispose)] = @ + 1]
  /\ UNCHANGED <<adapterFields, explorerFields, disposables, testExplorerDisposables,
                 lastDisposal, emitted>>

\* reset() up to its first await; the bound on createTestExplorer passes is
\* kept here, so that a reset under way is never stopped by it.
reset(c, op) ==
  /\ ~DisposeResolved
  /\ nextGen + Cardinality(ResetsInFlight) < MaxGen
  /\ BeginTeardown(c, op)

\* cancel() is reset().
cancel(c) == reset(c, "cancel")

\* The handler of the project's Reset command is reset() too: such a call goes
\* on exactly as a cancel() and is recorded as one.
resetCommand(c) == reset(c, "cancel")

dispose(c) == BeginTeardown(c, "dispose")

\* The explorer's dispose() has settled.  A rejection rejects disposeTestExplorer
\* and with it the reset or dispose; otherwise Disposer.dispose is invoked on
\* this.testExplorerDisposables and awaited.
explorerDisposed(c) ==
  /\ calls[c].pc = "awaitSession"
  /\ \/ /\ calls' = [calls EXCEPT ![c] =
               [@ EXCEPT !.pc = "rejected", !.err = "disposal",
                         !.ptrAtEnd = karmaTestExplorer]]
        /\ UNCHANGED <<testExplorerDisposables, released, lastDisposal>>
     \/ \E t \in Throwers(testExplorerDisposables) :
          LET d == DisposerDispose(testExplorerDisposables, t)
          IN  /\ calls' = [calls EXCEPT ![c] =
                   [@ EXCEPT !.pc = "awaitDisposer",
                             !.n = @ + Len(testExplorerDisposables)]]
              /\ released' = d.counts
              /\ lastDisposal' = d.order
              /\ testExplorerDisposables' = d.list
  /\ UNCHANGED <<adapterFields, explorerFields, disposables, emitted>>

\* this.testExplorerDisposables = []
registryCleared(c) ==
  /\ calls[c].pc = "awaitDisposer"
  /\ testExplorerDisposables' = <<>>
  /\ calls' = [calls EXCEPT ![c].pc = "cleared"]
  /\ UNCHANGED <<adapterFields, explorerFields, disposables, released, lastDisposal,
                 emitted>>

\* A reset that calls this.load() before it assigns the new explorer.
KickedExplorerBeforeAssignment(assigned) == karmaTestExplorer

\* The explorer this.load() of reset calls: the one this.karmaTestExplorer
\* holds after the assignment.
KickedExplorer(assigned) == assigned

\* The rest of reset, after disposeTestExplorer resolved:
\* this.karmaTestExplorer = this.createTestExplorer(); this.load();
resetCreate(c) ==
  /\ calls[c].op = "cancel"
  /\ calls[c].pc = "cleared"
  /\ \E failAt \in FailPoints \cup {NoFail} :
       LET e == createTestExplorer(nextGen, testExplorerDisposables, failAt)
       IN  /\ nextGen' = nextGen + 1
           /\ created' = created \cup e.made
           /\ testExplorerDisposables' = e.registry
           /\ IF e.threw
                THEN /\ calls' = [calls EXCEPT ![c] =
                          [@ EXCEPT !.pc = "rejected", !.err = "construction",
                                    !.ptrAtEnd = karmaTestExplorer]]
                     /\ UNCHANGED <<karmaTestExplorer, sessions, wired, emitted>>
                ELSE LET k == KickedExplorer(e.explorer)
                         w == [wired EXCEPT ![e.explorer] = e.wiring]
                     IN  /\ karmaTestExplorer' = e.explorer
                         /\ sessions' = sessions \cup {e.explorer}
                         /\ wired' = w
                         /\ calls' = [calls EXCEPT ![c] =
                              [@ EXCEPT !.pc = "resolved", !.new = e.explorer,
                                        !.ptrAtEnd = e.explorer,
                                        !.kickPc = "pending", !.kickTarget = k,
                                        !.kickOnDisposed = released[Session(k)] > 0]]
                         /\ emitted' = emitted \cup {Fire(w[k][1], "loadStarted")}
  /\ UNCHANGED <<adapterFields, disposables, released, lastDisposal>>

\* A reset that awaits the load it started and ends as that load ends.
settleKickAwaited(c) ==
  /\ calls[c].kickPc = "pending"
  /\ \E ok \in BOOLEAN :
       /\ calls' = [calls EXCEPT ![c] =
            [@ EXCEPT !.kickPc = IF ok THEN "resolved" ELSE "rejected",
                      !.pc = IF ok THEN "resolved" ELSE "rejected",
                      !.err = IF ok THEN "none" ELSE "delegation"]]
       /\ emitted' = emitted \cup {FinishEvent(calls[c].kickTarget, "load", ok)}
  /\ UNCHANGED <<adapterFields, explorerFields, disposables, testExplorerDisposables,
                 released, lastDisposal>>

\* The load reset started and does not await settles.
settleKick(c) ==
  /\ calls[c].kickPc = "pending"
  /\ \E ok \in BOOLEAN :
       /\ calls' = [calls EXCEPT ![c].kickPc = IF ok THEN "resolved" ELSE "rejected"]
       /\ emitted' = emitted \cup {FinishEvent(calls[c].kickTarget, "load", ok)}
  /\ UNCHANGED <<adapterFields, explorerFields, disposables, testExplorerDisposables,
                 released, lastDisposal>>

\* The rest of dispose, after disposeTestExplorer resolved:
\* Disposer.dispose(this.disposables) is invoked and awaited.
disposeProcessScoped(c) ==
  /\ calls[c].op = "dispose"
  /\ calls[c].pc = "cleared"
  /\ \E t \in Throwers(disposables) :
       LET d == DisposerDispose(disposables, t)
       IN  /\ calls' = [calls EXCEPT ![c] =
                [@ EXCEPT !.pc = "awaitProc", !.n = @ + Len(disposables)]]
           /\ released' = d.counts
           /\ lastDisposal' = d.order
           /\ disposables' = d.list
  /\ UNCHANGED <<adapterFields, explorerFields, testExplorerDisposables, emitted>>

disposeResolved(c) ==
  /\ calls[c].pc = "awaitProc"
  /\ calls' = [calls EXCEPT ![c] =
       [@ EXCEPT !.pc = "resolved", !.ptrAtEnd = karmaTestExplorer]]
  /\ UNCHANGED <<adapterFields, explorerFields, disposables, testExplorerDisposables,
                 released, lastDisposal, emitted>>

Next ==
  \E c \in Calls :
       \/ load(c)
       \/ run(c)
       \/ debug(c)
       \/ settle(c)
       \/ cancel(c)
       \/ resetCommand(c)
       \/ dispose(c)
       \/ explorerDisposed(c)
       \/ registryCleared(c)
       \/ resetCreate(c)
       \/ settleKick(c)
       \/ disposeProcessScoped(c)
       \/ disposeResolved(c)

Spec == Init /\ [][Next]_vars

(***************************************************************************)
(* Properties                                                              *)
(***************************************************************************)

Teardowns == {c \in Calls : calls[c].op \in {"cancel", "dispose"}}
Delegations == {c \in Calls : calls[c].op \in {"load", "run", "debug"}}
ResolvedCancels == {c \in Calls : calls[c].op = "cancel" /\ calls[c].pc = "resolved"}
LiveSessions == {g \in sessions : released[Session(g)] = 0}

\* C1: at the step in which a cancel() resolves, exactly one explorer is live
\* (constructed and never disposed), and the explorer that cancel() found
\* and each of the six disposables of its createTestExplorer pass has had
\* dispose() invoked exactly once.
C1_CancelReleasesPreviousExactlyOnce ==
  [][\A c \in Calls :
       (calls[c].op = "cancel" /\ calls[c].pc # "resolved" /\ calls'[c].pc = "resolved")
         => /\ Cardinality(LiveSessions') = 1
            /\ released'[Session(calls[c].old)] = 1
            /\ \A k \in Range(Kinds) : released'[Res(calls[c].old, k)] = 1]_vars

\* C2: whenever disposables of two explorer generations exist, every
\* disposable of the older generation has been released.
C2_GenerationsNeverCoexist ==
  \A r1 \in created, r2 \in created :
    (r1.gen \in sessions /\ r2.gen \in sessions /\ r1.gen < r2.gen) => released[r1] >= 1

\* C3: the emitters behind the three event accessors are the ones a subscriber
\* got at construction, they are the ones the constructor made, and every
\* explorer was wired to exactly them.
C3_ChannelsStable ==
  /\ <<tests, testStates, retire>> = subscribed
  /\ subscribed = <<Emitter("load", 0), Emitter("run", 0), Emitter("retire", 0)>>
  /\ \A g \in sessions : wired[g] = subscribed

\* C3 witness: two resets have completed and the newest explorer is wired to
\* the subscriber's emitters.
C3_Witness ==
  /\ Cardinality(ResolvedCancels) >= 2
  /\ karmaTestExplorer >= 2
  /\ wired[karmaTestExplorer] = subscribed

\* C4: a dispose() called after an earlier dispose() resolved invokes no
\* dispose() of any explorer or disposable.
C4_SecondDisposeReleasesNothing ==
  \A c \in Calls : (calls[c].op = "dispose" /\ calls[c].late) => calls[c].n = 0

\* C5: reset under load.  For a cancel() that is the only cancel()/dispose()
\* called so far and a load() that was pending when it was called: the load is
\* bound to the explorer the cancel() disposes and ends on that explorer or not
\* at all, it never touches the explorer the cancel() creates, and neither the
\* old explorer nor any disposable of its pass is released more than once.
C5_ResetUnderLoad ==
  \A c \in Calls, l \in Calls :
    (/\ calls[c].op = "cancel"
     /\ Teardowns = {c}
     /\ l \in calls[c].inFlight
     /\ calls[l].op = "load")
      => /\ calls[l].target = calls[c].old
         /\ calls[l].settledOn \in {None, calls[c].old}
         /\ calls[c].new # None => (calls[l].target # calls[c].new
                                    /\ calls[l].settledOn # calls[c].new)
         /\ released[Session(calls[c].old)] <= 1
         /\ \A k \in Range(Kinds) : released[Res(calls[c].old, k)] <= 1

\* C5 witness: the cancel() has resolved with a new explorer, and the load that
\* was pending when it was called has ended on the old one.
C5_Witness ==
  \E c \in Calls, l \in Calls :
    /\ calls[c].op = "cancel" /\ calls[c].pc = "resolved" /\ Teardowns = {c}
    /\ l \in calls[c].inFlight /\ calls[l].op = "load"
    /\ calls[l].settledOn = calls[c].old
    /\ karmaTestExplorer = calls[c].new
    /\ released[Session(calls[c].old)] = 1

\* C6: every load/run/debug call is delegated exactly once, to the explorer the
\* adapter held when the call was made, and ends on that explorer even when a
\* cancel() has replaced it meanwhile.
C6_DelegationBoundAtCall ==
  \A c \in Delegations :
    /\ calls[c].ndeleg = 1
    /\ calls[c].target = calls[c].issuedAt
    /\ calls[c].target \in sessions
    /\ calls[c].settledOn \in {None, calls[c].target}

\* C6 witness: a run was called, a later cancel() resolved with a new explorer,
\* and the run then ended on the explorer it was called on.
C6_Witness ==
  \E c \in Calls, r \in Calls :
    /\ calls[c].op = "run" /\ c < r
    /\ calls[r].op = "cancel" /\ calls[r].pc = "resolved"
    /\ calls[c].target = calls[r].old
    /\ calls[c].settledOn = calls[c].target
    /\ karmaTestExplorer # calls[c].target

\* C7: no cancel() or dispose() is rejected because a dispose() threw.
C7_DisposalFailureContained ==
  \A c \in Teardowns : calls[c].err # "disposal"

\* C8: when the dispose() of the explorer itself throws during a teardown,
\* every disposable that was registered when the teardown began has still had
\* its dispose() invoked.
C8_FaultIsolation ==
  \A c \in Teardowns :
    calls[c].err = "disposal" => \A r \in calls[c].regAtStart : released[r] >= 1

ConstructionFailed ==
  ~constructed \/ \E c \in Calls : calls[c].err = "construction"

\* C9: when createTestExplorer throws, the constructor still returns, no
\* cancel() is rejected by it, and a failed load-finished event has been fired
\* on the load emitter.
C9_ConstructionFailureSurfaced ==
  ConstructionFailed =>
    /\ constructed
    /\ \A c \in Calls : calls[c].err # "construction"
    /\ Fire(testLoadEmitter, "loadFinishedError") \in emitted

\* C10: a cancel() that has resolved has had the explorer it found disposed, has
\* created a new explorer that was the current one when it resolved, and has
\* started a load on that new explorer, which had not been disposed.
C10_CancelResolvesAfterSwapAndLoad ==
  \A c \in ResolvedCancels :
    /\ released[Session(calls[c].old)] >= 1
    /\ calls[c].new \in sessions
    /\ calls[c].new # calls[c].old
    /\ calls[c].ptrAtEnd = calls[c].new
    /\ calls[c].kickPc # "none"
    /\ calls[c].kickTarget = calls[c].new
    /\ ~calls[c].kickOnDisposed

\* C10 witness: a cancel() has resolved and the load it started is pending on
\* the current explorer.
C10_Witness ==
  \E c \in ResolvedCancels :
    /\ calls[c].kickPc = "pending"
    /\ calls[c].kickTarget = karmaTestExplorer
    /\ released[Session(calls[c].old)] = 1

\* C11: in a step that releases an adapter-lifetime disposable, the current
\* explorer has had dispose() invoked and every disposable in
\* testExplorerDisposables has been released.
C11_SessionBeforeProcessScoped ==
  [][(\E p \in ProcessRes : released'[p] > released[p])
       => /\ released[Session(karmaTestExplorer)] >= 1
          /\ \A r \in Range(testExplorerDisposables) : released[r] >= 1]_vars

\* The place of a disposable in the order of registration: the adapter-lifetime
\* ones as the constructor pushes them, the explorer's ones pass after pass as
\* createTestExplorer pushes them.
RegistrationRank(r) ==
  IF r.gen = None
    THEN CHOOSE i \in DOMAIN ProcessKinds : ProcessKinds[i] = r.kind
    ELSE r.gen * Len(Kinds) + (CHOOSE i \in DOMAIN Kinds : Kinds[i] = r.kind)

C12_SessionOrderReached ==
  lastDisposal =
    <<Res(0, "fileWatcher"), Res(0, "testManager"), Res(0, "testStore"),
      Res(0, "testLocator"), Res(0, "processHandler"), Res(0, "factory")>>

\* C13: an adapter-lifetime disposable has been released only if a dispose()
\* of the adapter has got to releasing them.
C13_SharedReleasedOnlyByDispose ==
  \A p \in ProcessRes :
    released[p] > 0 =>
      \E c \in Calls : calls[c].op = "dispose" /\ calls[c].pc \in {"awaitProc", "resolved"}

\* C13 witness: two resets have completed and no adapter-lifetime disposable
\* has been released.
C13_Witness ==
  /\ Cardinality(ResolvedCancels) >= 2
  /\ \A p \in ProcessRes : released[p] = 0

\* C14: once dispose() has been called, no step fires an event on the load,
\* run or retire emitter.
C14_NoEventAfterDispose ==
  [][DisposeStarted => emitted' = emitted]_vars

\* C15: a step in which a load, run or debug call is rejected by its explorer
\* records the failure of the delegation on that call and changes nothing
\* else: the explorer pointer, both registries, what was created and released
\* and every other call stay as they were, so no reset and no disposal starts.
C15_DelegationFailureChangesNothing ==
  [][\A c \in Calls :
       (/\ calls[c].op \in {"load", "run", "debug"}
        /\ calls[c].pc = "pending"
        /\ calls'[c].pc = "rejected")
         => /\ calls'[c].err = "delegation"
            /\ calls'[c].target = calls[c].target
            /\ \A d \in Calls \ {c} : calls'[d] = calls[d]
            /\ UNCHANGED <<explorerFields, disposables, testExplorerDisposables,
                           released, lastDisposal>>]_vars

\* C15 witness: a delegated call was rejected while the explorer it was made on
\* is still the current one, undisposed, with its six disposables registered
\* and unreleased.
C15_Witness ==
  \E c \in Calls :
    /\ calls[c].op \in {"load", "run", "debug"}
    /\ calls[c].pc = "rejected"
    /\ calls[c].err = "delegation"
    /\ karmaTestExplorer = calls[c].target
    /\ released[Session(karmaTestExplorer)] = 0
    /\ testExplorerDisposables = [i \in 1 .. Len(Kinds) |-> Res(karmaTestExplorer, Kinds[i])]
    /\ \A r \in Range(testExplorerDisposables) : released[r] = 0

\* C16: in the step in which a cancel() resolves, testExplorerDisposables was
\* empty before createTestExplorer ran and afterwards holds exactly the six
\* disposables of the pass that made the explorer now current, in the order of
\* registration, and none of an earlier pass.
C16_RegistryHoldsCurrentPassOnly ==
  [][\A c \in Calls :
       (calls[c].op = "cancel" /\ calls[c].pc = "cleared" /\ calls'[c].pc = "resolved")
         => /\ testExplorerDisposables = <<>>
            /\ testExplorerDisposables' =
                 [i \in 1 .. Len(Kinds) |-> Res(karmaTestExplorer', Kinds[i])]]_vars

\* C17: before dispose() is called, a step in which load, run or debug is
\* called hands the call to an explorer that has not had dispose() invoked.
C17_NoDelegationToDisposedExplorer ==
  [][\A c \in Calls :
       (/\ ~DisposeStarted
        /\ calls[c].op = "none"
        /\ calls'[c].op \in {"load", "run", "debug"})
         => released[Session(calls'[c].target)] = 0]_vars

\* C18: once a dispose() has resolved, every explorer ever constructed has had
\* dispose() invoked and every component ever made by a createTestExplorer
\* pass has been released (so none is made afterwards and left alive).
C18_NothingAliveAfterDispose ==
  DisposeResolved =>
    /\ \A g \in sessions : released[Session(g)] >= 1
    /\ \A r \in created : released[r] >= 1

\* C19: while the adapter exists, every component made by a createTestExplorer
\* pass that has not been released is in testExplorerDisposables.
C19_UnreleasedAreRegistered ==
  constructed =>
    \A r \in created : released[r] = 0 => r \in Range(testExplorerDisposables)

\* C20: a cancel() ends on its own steps alone: once its load has been started
\* the cancel() has resolved without error, whatever becomes of the load
\* (pending, resolved or rejected), a resolved cancel() has started its load,
\* and no cancel() ever carries a delegation failure.
C20_CancelIndependentOfLoad ==
  \A c \in Calls :
    calls[c].op = "cancel" =>
      /\ calls[c].kickPc # "none" => (calls[c].pc = "resolved" /\ calls[c].err = "none")
      /\ calls[c].pc = "resolved" => calls[c].kickPc \in {"pending", "resolved", "rejected"}
      /\ calls[c].err # "delegation"

\* C20 witness: a cancel() has resolved and the load it started was rejected.
C20_Witness ==
  \E c \in Calls :
    /\ calls[c].op = "cancel"
    /\ calls[c].pc = "resolved"
    /\ calls[c].err = "none"
    /\ calls[c].kickPc = "rejected"

====
